---- MODULE Spec2Model ----
(***************************************************************************)
(* Model of the literature-review tooling:                                 *)
(*   - the multi-source citation resolver and its batch driver             *)
(*     (search_engine_requests.py),                                        *)
(*   - the filename tag parser and the cross-table duplicate detection     *)
(*     (process_results.py).                                               *)
(* Python's None is modelled by the integer Null, an exception leaving a   *)
(* function by the field "raised" of its result.                           *)
(***************************************************************************)
EXTENDS Integers, Sequences, FiniteSets, TLC

VARIABLES
    \* ---- one call of get_citation_count_from_multiple_sources
    rpc,              \* "idle" | "returned" | "raised"
    resp,             \* what the four providers answer to this call
    scopus_api_key,   \* os.getenv('SCOPUS_API_KEY') is set
    ret,              \* outcome of the call: raised, value, queried
    \* ---- fill_acm_citation_count
    pc,               \* "idle" | "loop" | "checkpoint" | "done" | "aborted" | "stopped"
    world,            \* what the providers answer for each DOI
    loaded,           \* the table as pd.read_csv returned it for this run
    df,               \* the in-memory table
    disk,             \* the file csv_file_path
    index,            \* the row the loop is at (1-based)
    updated,          \* the counter updated
    resolved,         \* per row: resolver calls of this run
    dirty,            \* rows written by df.at and not yet persisted
    persisted_rows,   \* rows whose update reached the file (any run)
    prior,            \* rows whose update an earlier run persisted
    interim_saves,    \* to_csv calls of this run inside the loop
    final_saves,      \* to_csv calls of this run after the loop
    runs,             \* runs of the driver started so far
    \* ---- parse_search_info
    ppc,              \* "idle" | "loop" | "returned"
    parts,            \* name.split('_')
    i,                \* the scan index (0-based, as in the code)
    terms,            \* the list terms
    excluded,         \* the list excluded
    iters,            \* iterations of the while loop executed so far
    \* ---- find_common_papers
    dpc,              \* "idle" | "scan" | "returned" | "raised"
    dfs,              \* the list of tables
    threshold,        \* the threshold, as the fraction num/den
    ti, tj,           \* the pairing at hand: tables dfs[ti], dfs[tj]
    ra,               \* the row of dfs[ti] at hand
    common_papers,    \* the list common_papers, with where each entry is from
    returned_rows     \* the rows returned (after drop_duplicates)

rvars == <<rpc, resp, scopus_api_key, ret>>
bvars == <<pc, world, loaded, df, disk, index, updated, resolved, dirty,
           persisted_rows, prior, interim_saves, final_saves, runs>>
pvars == <<ppc, parts, i, terms, excluded, iters>>
dvars == <<dpc, dfs, threshold, ti, tj, ra, common_papers, returned_rows>>
vars == <<rvars, bvars, pvars, dvars>>

\* ---------------------------------------------------------------- bounds
\* Largest citation count a provider reports in the model.
MaxCount == 2
\* Longest table the batch driver is run on.
MaxRows == 25
\* Runs of the batch driver on one file (the first run and its reruns).
MaxRuns == 2
\* Most tokens after the search engine in a filename.
MaxTokens == 3
\* Most iterations of the loop of parse_search_info that are followed.
MaxIters == 5
\* Most tables handed to find_common_papers, most rows of the table whose
\* rows are reported.
MaxTables == 3
MaxTableRows == 2

\* ---------------------------------------------------------------- values
\* Python's None (a JSON null, a missing return value).
Null == -1
Counts == 0..MaxCount

\* ------------------------------------------------- provider responses
\* Semantic Scholar: a transport/HTTP failure (RequestException), or a JSON
\* body with a title (empty or not), a citationCount (possibly null) and an
\* authors list (possibly null).
AResponses ==
    {[kind |-> "error", title |-> FALSE, count |-> Null, authors |-> FALSE]}
    \cup [kind : {"ok"}, title : BOOLEAN, count : Counts \cup {Null}, authors : BOOLEAN]

\* CrossRef / Scopus: any exception, or a JSON body with or without the
\* envelope key ('message', 'full-text-retrieval-response') and a count.
EnvelopeResponses ==
    {[kind |-> "error", envelope |-> FALSE, count |-> Null]}
    \cup {[kind |-> "ok", envelope |-> FALSE, count |-> Null]}
    \cup [kind : {"ok"}, envelope : {TRUE}, count : Counts \cup {Null}]

\* Google Scholar: any exception, or a page whose first 'Cited by <n>' match
\* carries n (cited = Null: the page holds no such text).
DResponses ==
    {[kind |-> "error", cited |-> Null]}
    \cup [kind : {"ok"}, cited : Counts \cup {Null}]

Responses == [a : AResponses, b : EnvelopeResponses, c : EnvelopeResponses, d : DResponses]

\* ------------------------------------------------------------ resolver
\* get_citation_count_from_doi without its except clause: the
\* RequestException leaves the function.
get_citation_count_from_doi_uncaught(a) ==
    IF a.kind = "error" \/ ~a.authors
    THEN [raised |-> TRUE, found |-> FALSE, citationCount |-> Null]
    ELSE IF ~a.title
    THEN [raised |-> FALSE, found |-> FALSE, citationCount |-> Null]
    ELSE [raised |-> FALSE, found |-> TRUE, citationCount |-> a.count]

\* get_citation_count_from_doi: None on a RequestException or an empty title;
\* the authors comprehension runs while the dict is built, before the title
\* check, and a TypeError is not a RequestException.
get_citation_count_from_doi(a) ==
    IF a.kind = "error"
    THEN [raised |-> FALSE, found |-> FALSE, citationCount |-> Null]
    ELSE IF ~a.authors
    THEN [raised |-> TRUE, found |-> FALSE, citationCount |-> Null]
    ELSE IF ~a.title
    THEN [raised |-> FALSE, found |-> FALSE, citationCount |-> Null]
    ELSE [raised |-> FALSE, found |-> TRUE, citationCount |-> a.count]

\* get_citation_count_from_google_scholar: the parsed count, 0 when the page
\* has no 'Cited by <n>', None on any exception.
get_citation_count_from_google_scholar(d) ==
    IF d.kind = "error" THEN Null
    ELSE IF d.cited # Null THEN d.cited
    ELSE 0

\* The try block of CrossRef (and of Scopus): a positive count is returned,
\* everything else, exceptions included (None > 0 is a TypeError, caught by
\* except Exception), falls through.
TryEnvelope(r) ==
    IF r.kind = "ok" /\ r.envelope /\ r.count # Null /\ r.count > 0
    THEN [hit |-> TRUE, count |-> r.count]
    ELSE [hit |-> FALSE, count |-> Null]

\* Lines 190-198 handing Google Scholar's None on to the caller.
LastResort_PropagatesNone(citation_count, queried) ==
    [raised |-> FALSE, value |-> citation_count, queried |-> queried]

\* Lines 190-198: Google Scholar's count when it is not None, else 0.
LastResort(citation_count, queried) ==
    [raised |-> FALSE,
     value |-> IF citation_count # Null THEN citation_count ELSE 0,
     queried |-> queried]

\* Lines 160-198: Scopus when the key is set, then Google Scholar.
FromScopus(o, key, queried) ==
    IF key /\ TryEnvelope(o.c).hit
    THEN [raised |-> FALSE, value |-> TryEnvelope(o.c).count,
          queried |-> queried \o <<"C">>]
    ELSE LastResort(get_citation_count_from_google_scholar(o.d),
                    (IF key THEN queried \o <<"C">> ELSE queried) \o <<"D">>)

\* Lines 134-198: CrossRef, then the rest of the chain.
FromCrossRef(o, key, queried) ==
    IF TryEnvelope(o.b).hit
    THEN [raised |-> FALSE, value |-> TryEnvelope(o.b).count,
          queried |-> queried \o <<"B">>]
    ELSE FromScopus(o, key, queried \o <<"B">>)

\* get_citation_count_from_multiple_sources. The call of Semantic Scholar and
\* the test result['citationCount'] > 0 stand outside every try block.
get_citation_count_from_multiple_sources(o, key) ==
    LET result == get_citation_count_from_doi(o.a)
    IN  IF result.raised
        THEN [raised |-> TRUE, value |-> Null, queried |-> <<"A">>]
        ELSE IF result.found /\ result.citationCount = Null
        THEN [raised |-> TRUE, value |-> Null, queried |-> <<"A">>]
        ELSE IF result.found /\ result.citationCount > 0
        THEN [raised |-> FALSE, value |-> result.citationCount, queried |-> <<"A">>]
        ELSE FromCrossRef(o, key, <<"A">>)

\* ------------------------------------------------- specification: resolver
NoResponse ==
    [a |-> [kind |-> "error", title |-> FALSE, count |-> Null, authors |-> FALSE],
     b |-> [kind |-> "error", envelope |-> FALSE, count |-> Null],
     c |-> [kind |-> "error", envelope |-> FALSE, count |-> Null],
     d |-> [kind |-> "error", cited |-> Null]]
NoReturn == [raised |-> FALSE, value |-> Null, queried |-> <<>>]

ResolverIdle ==
    /\ rpc = "idle"
    /\ resp = NoResponse
    /\ scopus_api_key = FALSE
    /\ ret = NoReturn

BatchIdle ==
    /\ pc = "idle"
    /\ world = <<>>
    /\ loaded = <<>>
    /\ df = <<>>
    /\ disk = <<>>
    /\ index = 0
    /\ updated = 0
    /\ resolved = <<>>
    /\ dirty = {}
    /\ persisted_rows = {}
    /\ prior = {}
    /\ interim_saves = 0
    /\ final_saves = 0
    /\ runs = 0

ParseIdle ==
    /\ ppc = "idle"
    /\ parts = <<>>
    /\ i = 0
    /\ terms = <<>>
    /\ excluded = <<>>
    /\ iters = 0

DupIdle ==
    /\ dpc = "idle"
    /\ dfs = <<>>
    /\ threshold = [num |-> 4, den |-> 5]
    /\ ti = 0 /\ tj = 0 /\ ra = 0
    /\ common_papers = <<>>
    /\ returned_rows = <<>>

InitResolver == ResolverIdle /\ BatchIdle /\ ParseIdle /\ DupIdle

\* One call of the resolver against providers that answer o.
Resolve ==
    /\ rpc = "idle"
    /\ \E o \in Responses, key \in BOOLEAN :
         LET r == get_citation_count_from_multiple_sources(o, key)
         IN  /\ resp' = o
             /\ scopus_api_key' = key
             /\ ret' = r
             /\ rpc' = IF r.raised THEN "raised" ELSE "returned"
    /\ UNCHANGED <<bvars, pvars, dvars>>

NextResolver == Resolve

SpecResolver == InitResolver /\ [][NextResolver]_vars


\* ------------------------------------------------------- batch driver
\* Save progress every 10 papers (updated % 10 == 0).
SaveEvery == 10

\* pd.isna(row['DOI'])
NoDoi == "nan"
Dois == {"d1", "d2"}

\* During the runs on one file the providers answer by DOI (world): what a
\* DOI is answered is drawn once, from the answers below.
\* The provider answers the batch runs are checked against: a positive count
\* from Semantic Scholar, zero everywhere, every request failing, a null
\* citationCount from Semantic Scholar, and a count that only Scopus has.
AFail == [kind |-> "error", title |-> FALSE, count |-> Null, authors |-> FALSE]
EFail == [kind |-> "error", envelope |-> FALSE, count |-> Null]
DFail == [kind |-> "error", cited |-> Null]
BatchResponses ==
    { [a |-> [kind |-> "ok", title |-> TRUE, count |-> MaxCount, authors |-> TRUE],
       b |-> EFail, c |-> EFail, d |-> DFail],
      [a |-> [kind |-> "ok", title |-> TRUE, count |-> 0, authors |-> TRUE],
       b |-> [kind |-> "ok", envelope |-> TRUE, count |-> 0],
       c |-> EFail, d |-> [kind |-> "ok", cited |-> Null]],
      [a |-> AFail, b |-> EFail, c |-> EFail, d |-> DFail],
      [a |-> [kind |-> "ok", title |-> TRUE, count |-> Null, authors |-> TRUE],
       b |-> EFail, c |-> EFail, d |-> DFail],
      [a |-> AFail, b |-> EFail,
       c |-> [kind |-> "ok", envelope |-> TRUE, count |-> 1], d |-> DFail] }

\* The rows a table is built from, and the tables: a pattern of one or two
\* rows repeated to the table's length.
RowKinds == [DOI : Dois \cup {NoDoi}, Cites : {0, MaxCount}]
Patterns == {<<r>> : r \in RowKinds} \cup {<<r, q>> : r, q \in RowKinds}
TableOf(pattern, n) == [k \in 1..n |-> pattern[((k - 1) % Len(pattern)) + 1]]

\* pd.read_csv(csv_file_path) and the initialisation before the loop.
StartRun(file) ==
    /\ loaded' = file
    /\ df' = file
    /\ index' = 1
    /\ updated' = 0
    /\ resolved' = [k \in 1..Len(file) |-> 0]
    /\ dirty' = {}
    /\ interim_saves' = 0
    /\ final_saves' = 0
    /\ pc' = "loop"

InitBatch ==
    /\ \E n \in (MaxRows - 1)..MaxRows, pattern \in Patterns :
         disk = TableOf(pattern, n)
    /\ scopus_api_key \in BOOLEAN
    /\ rpc = "idle" /\ resp = NoResponse /\ ret = NoReturn
    /\ world \in [Dois -> BatchResponses]
    /\ loaded = disk /\ df = disk
    /\ index = 1 /\ updated = 0
    /\ resolved = [k \in 1..Len(disk) |-> 0]
    /\ dirty = {} /\ persisted_rows = {} /\ prior = {}
    /\ interim_saves = 0 /\ final_saves = 0
    /\ pc = "loop"
    /\ runs = 1
    /\ ParseIdle /\ DupIdle

\* Lines 212-216 without the test row['Cites'] > 0.
Skips_MissingDoiOnly(row) == row.DOI = NoDoi

\* Lines 212-216: the row is skipped.
Skips(row) == row.DOI = NoDoi \/ row.Cites > 0

\* The checkpoint test made on the count before its increment.
CheckpointDue_BeforeIncrement(n) == (n - 1) % SaveEvery = 0

\* The checkpoint test with the interval off by one.
CheckpointDue_OffByOne(n) == n % (SaveEvery + 1) = 0

\* Lines 226-227: the checkpoint is due.
CheckpointDue(n) == n % SaveEvery = 0

\* One iteration on a skipped row.
SkipRow ==
    /\ pc = "loop"
    /\ index <= Len(df)
    /\ Skips(df[index])
    /\ index' = index + 1
    /\ UNCHANGED <<pvars, dvars, rvars, pc, world, loaded, df, disk, updated, resolved, dirty,
                   persisted_rows, prior, interim_saves, final_saves, runs>>

\* One iteration on a row that is resolved (lines 218-223): the resolver
\* returns and the count is written back.
ResolveRow ==
    /\ pc = "loop"
    /\ index <= Len(df)
    /\ ~Skips(df[index])
    /\ LET r == get_citation_count_from_multiple_sources(world[df[index].DOI], scopus_api_key)
       IN  /\ ~r.raised
           /\ resp' = world[df[index].DOI]
           /\ ret' = r
           /\ rpc' = "returned"
           /\ resolved' = [resolved EXCEPT ![index] = @ + 1]
           /\ IF r.value # Null
              THEN /\ df' = [df EXCEPT ![index].Cites = r.value]
                   /\ updated' = updated + 1
                   /\ dirty' = dirty \cup {index}
                   /\ pc' = IF CheckpointDue(updated + 1) THEN "checkpoint" ELSE "loop"
              ELSE UNCHANGED <<df, updated, dirty, pc>>
    /\ index' = index + 1
    /\ UNCHANGED <<pvars, dvars, scopus_api_key, world, loaded, disk, persisted_rows, prior,
                   interim_saves, final_saves, runs>>

\* One iteration on a row whose resolution raises: nothing in the driver
\* catches it, the run ends with the exception.
ResolveRowRaises ==
    /\ pc = "loop"
    /\ index <= Len(df)
    /\ ~Skips(df[index])
    /\ LET r == get_citation_count_from_multiple_sources(world[df[index].DOI], scopus_api_key)
       IN  /\ r.raised
           /\ resp' = world[df[index].DOI]
           /\ ret' = r
           /\ rpc' = "raised"
    /\ resolved' = [resolved EXCEPT ![index] = @ + 1]
    /\ pc' = "aborted"
    /\ UNCHANGED <<pvars, dvars, scopus_api_key, world, loaded, df, disk, index, updated, dirty,
                   persisted_rows, prior, interim_saves, final_saves, runs>>

\* Lines 226-228: df.to_csv inside the loop.
Checkpoint ==
    /\ pc = "checkpoint"
    /\ disk' = df
    /\ interim_saves' = interim_saves + 1
    /\ persisted_rows' = persisted_rows \cup dirty
    /\ dirty' = {}
    /\ pc' = "loop"
    /\ UNCHANGED <<pvars, dvars, rvars, world, loaded, df, index, updated, resolved, prior,
                   final_saves, runs>>

\* Lines 230-233: the loop is over, the final df.to_csv.
FinalSave ==
    /\ pc = "loop"
    /\ index > Len(df)
    /\ disk' = df
    /\ final_saves' = final_saves + 1
    /\ persisted_rows' = persisted_rows \cup dirty
    /\ dirty' = {}
    /\ pc' = "done"
    /\ UNCHANGED <<pvars, dvars, rvars, world, loaded, df, index, updated, resolved, prior,
                   interim_saves, runs>>

\* The process is terminated during a run: the in-memory table is lost.
Crash ==
    /\ pc \in {"loop", "checkpoint"}
    /\ pc' = "stopped"
    /\ UNCHANGED <<pvars, dvars, rvars, world, loaded, df, disk, index, updated, resolved, dirty,
                   persisted_rows, prior, interim_saves, final_saves, runs>>

\* The driver is run again on the file a former run left.
Rerun ==
    /\ pc \in {"stopped", "aborted", "done"}
    /\ runs < MaxRuns
    /\ runs' = runs + 1
    /\ prior' = persisted_rows
    /\ StartRun(disk)
    /\ UNCHANGED <<pvars, dvars, rvars, world, disk, persisted_rows>>

NextBatch ==
    \/ SkipRow
    \/ ResolveRow
    \/ ResolveRowRaises
    \/ Checkpoint
    \/ FinalSave
    \/ Crash
    \/ Rerun

SpecBatch == InitBatch /\ [][NextBatch]_vars



\* ---------------------------------------------------- parse_search_info
\* The tokens name.split('_') yields after the search engine.
Tokens == {"AND", "ANDNOT", "llm", "agents"}

RECURSIVE SeqsUpTo(_, _)
SeqsUpTo(S, n) ==
    IF n = 0 THEN {<<>>}
    ELSE LET shorter == SeqsUpTo(S, n - 1)
         IN  shorter \cup {Append(q, x) : q \in shorter, x \in S}

\* Lines 71-78: the filename is split, the scan starts at index 1.
InitParse ==
    /\ ResolverIdle /\ BatchIdle /\ DupIdle
    /\ ppc = "loop"
    /\ parts \in {<<"scholar">> \o q : q \in SeqsUpTo(Tokens, MaxTokens)}
    /\ i = 1
    /\ terms = <<>>
    /\ excluded = <<>>
    /\ iters = 0

\* Lines 80-88: what one iteration does to the index and the two lists.
\* parts[i] of the code is parts[i + 1] here (sequences start at 1).
LoopBody(ps, k, ts, ex) ==
    IF ps[k + 1] = "ANDNOT"
    THEN IF k + 1 < Len(ps)
         THEN [i |-> k + 2, terms |-> ts, excluded |-> Append(ex, ps[k + 2])]
         ELSE [i |-> k, terms |-> ts, excluded |-> ex]
    ELSE IF ps[k + 1] # "AND"
    THEN [i |-> k + 1, terms |-> Append(ts, ps[k + 1]), excluded |-> ex]
    ELSE [i |-> k + 1, terms |-> ts, excluded |-> ex]

\* One iteration of while i < len(parts).
LoopIteration ==
    /\ ppc = "loop"
    /\ i < Len(parts)
    /\ iters < MaxIters
    /\ LET after == LoopBody(parts, i, terms, excluded)
       IN  /\ i' = after.i
           /\ terms' = after.terms
           /\ excluded' = after.excluded
    /\ iters' = iters + 1
    /\ UNCHANGED <<rvars, bvars, dvars, ppc, parts>>

\* Lines 90-94: the loop condition fails and the dict is returned.
ReturnParsed ==
    /\ ppc = "loop"
    /\ ~(i < Len(parts))
    /\ ppc' = "returned"
    /\ UNCHANGED <<rvars, bvars, dvars, parts, i, terms, excluded, iters>>

NextParse == LoopIteration \/ ReturnParsed

SpecParse == InitParse /\ [][NextParse]_vars

\* --------------------------------------------------------- claims: parse
\* C10: parse_search_info terminates for every filename: the scan index
\* strictly advances on every loop iteration (so after k iterations it is at
\* least 1 + k and the loop ends within len(parts) - 1 iterations), also when
\* the last token is 'ANDNOT'.
C10_ScanAdvances ==
    ppc # "idle" => i >= 1 + iters /\ iters <= Len(parts) - 1


\* ---------------------------------------------------- find_common_papers
\* Titles are strings over a few characters: the words are the letters, "C"
\* is the upper case of "c", " " is whitespace, "!" is punctuation.
Lower(ch) == IF ch = "C" THEN "c" ELSE ch
IsWordOrSpace(ch) == ch # "!"
IsSpace(ch) == ch = " "

\* normalize_title: re.sub(r'[^\w\s]', '', title.lower())
RECURSIVE normalize_title(_)
normalize_title(title) ==
    IF title = <<>> THEN <<>>
    ELSE LET ch == Lower(Head(title))
             rest == normalize_title(Tail(title))
         IN  IF IsWordOrSpace(ch) THEN <<ch>> \o rest ELSE rest

\* str.split(): the maximal runs of non-whitespace characters, as a set
\* (set(title.split())). cur is the run being read.
RECURSIVE SplitSet(_, _)
SplitSet(s, cur) ==
    IF s = <<>> THEN (IF cur = <<>> THEN {} ELSE {cur})
    ELSE IF IsSpace(Head(s))
    THEN (IF cur = <<>> THEN {} ELSE {cur}) \cup SplitSet(Tail(s), <<>>)
    ELSE SplitSet(Tail(s), Append(cur, Head(s)))

TokenSet(s) == SplitSet(s, <<>>)

\* Lines 188-191 on two normalized titles: "match", "nomatch", or "error"
\* (the division by len(set(title1.split())) when that set is empty).
Compare(title1, title2, thr) ==
    IF Len(title1) > 0 /\ Len(title2) > 0
    THEN IF Cardinality(TokenSet(title1)) = 0
         THEN "error"
         ELSE IF Cardinality(TokenSet(title1) \cap TokenSet(title2)) * thr.den
                    >= thr.num * Cardinality(TokenSet(title1))
         THEN "match"
         ELSE "nomatch"
    ELSE "nomatch"

\* Lines 184-198: row1 against the rows of df2 from row k on, up to the
\* first match (break) or the first exception.
RECURSIVE ScanRows(_, _, _, _)
ScanRows(title1, df2, k, thr) ==
    IF k > Len(df2) THEN "nomatch"
    ELSE LET c == Compare(title1, normalize_title(df2[k].Title), thr)
         IN  IF c = "nomatch" THEN ScanRows(title1, df2, k + 1, thr) ELSE c

\* drop_duplicates: the first occurrence of every row is kept.
RECURSIVE drop_duplicates(_)
drop_duplicates(rows) ==
    IF rows = <<>> THEN <<>>
    ELSE LET front == drop_duplicates(SubSeq(rows, 1, Len(rows) - 1))
             last == rows[Len(rows)]
         IN  IF \E k \in 1..Len(front) : front[k] = last THEN front ELSE Append(front, last)

Titles ==
    { <<"c">>,
      <<"C", "!">>,
      <<"c", " ", "a", " ", "d">>,
      <<"a", " ", "b", " ", "c", " ", "d">>,
      <<"a", " ", "b", " ", "c", " ", "d", " ", "e">>,
      <<>>,
      <<"!", "!">>,
      <<" ", " ">> }

Thresholds == {[num |-> 4, den |-> 5], [num |-> 1, den |-> 3], [num |-> 1, den |-> 1]}

DupRows == [Title : Titles, Cites : {0}]
DupTables(rows) == UNION {[1..n -> DupRows] : n \in 1..rows}

\* The arguments: a table of up to MaxTableRows rows and one of up to two
\* rows, or up to MaxTables tables of one row.
InitDup ==
    /\ ResolverIdle /\ BatchIdle /\ ParseIdle
    /\ dpc = "scan"
    /\ dfs \in {<<df1, df2>> : df1 \in DupTables(MaxTableRows), df2 \in DupTables(2)}
              \cup UNION {[1..n -> [1..1 -> DupRows]] : n \in 3..MaxTables}
    /\ threshold \in Thresholds
    /\ ti = 1 /\ tj = 2 /\ ra = 1
    /\ common_papers = <<>>
    /\ returned_rows = <<>>

\* The loops of lines 178-180 step to the next row of df1, the next df2, the
\* next df1.
Advance ==
    IF ra < Len(dfs[ti])
    THEN ra' = ra + 1 /\ UNCHANGED <<ti, tj>>
    ELSE /\ ra' = 1
         /\ IF tj < Len(dfs)
            THEN tj' = tj + 1 /\ UNCHANGED ti
            ELSE ti' = ti + 1 /\ tj' = ti + 2

\* The scan of row ra of dfs[ti] against dfs[tj].
ScanOutcome ==
    ScanRows(normalize_title(dfs[ti][ra].Title), dfs[tj], 1, threshold)

\* Lines 180-198 for one row1: a row of df2 matches, row1 is appended.
RowMatches ==
    /\ dpc = "scan"
    /\ ti < Len(dfs)
    /\ ScanOutcome = "match"
    /\ common_papers' = Append(common_papers,
                               [i |-> ti, j |-> tj, a |-> ra, row |-> dfs[ti][ra]])
    /\ Advance
    /\ UNCHANGED <<rvars, bvars, pvars, dpc, dfs, threshold, returned_rows>>

\* Lines 180-198 for one row1: no row of df2 matches.
RowNoMatch ==
    /\ dpc = "scan"
    /\ ti < Len(dfs)
    /\ ScanOutcome = "nomatch"
    /\ Advance
    /\ UNCHANGED <<rvars, bvars, pvars, dpc, dfs, threshold, common_papers, returned_rows>>

\* Lines 180-198 for one row1: the division raises ZeroDivisionError, which
\* nothing in find_common_papers catches.
RowRaises ==
    /\ dpc = "scan"
    /\ ti < Len(dfs)
    /\ ScanOutcome = "error"
    /\ dpc' = "raised"
    /\ UNCHANGED <<rvars, bvars, pvars, dfs, threshold, ti, tj, ra, common_papers, returned_rows>>

\* Line 200: every pairing is done.
ReturnCommon ==
    /\ dpc = "scan"
    /\ ~(ti < Len(dfs))
    /\ returned_rows' = drop_duplicates([k \in 1..Len(common_papers) |-> common_papers[k].row])
    /\ dpc' = "returned"
    /\ UNCHANGED <<rvars, bvars, pvars, dfs, threshold, ti, tj, ra, common_papers>>

NextDup == RowMatches \/ RowNoMatch \/ RowRaises \/ ReturnCommon

SpecDup == InitDup /\ [][NextDup]_vars

\* ----------------------------------------------------------- claims: dup
\* The similarity of the claim: both normalized titles non-empty and
\* |tokens(A) & tokens(B)| / |tokens(A)| >= threshold (no match when the
\* ratio is undefined).
ClaimedMatch(titleA, titleB) ==
    LET na == normalize_title(titleA)
        nb == normalize_title(titleB)
    IN  /\ Len(na) > 0 /\ Len(nb) > 0
        /\ Cardinality(TokenSet(na)) > 0
        /\ Cardinality(TokenSet(na) \cap TokenSet(nb)) * threshold.den
               >= threshold.num * Cardinality(TokenSet(na))

\* Entries of common_papers that come from row a of table p in the pairing
\* (p, q).
EntriesOf(p, q, a) ==
    {k \in 1..Len(common_papers) :
        common_papers[k].i = p /\ common_papers[k].j = q /\ common_papers[k].a = a}

\* C8: when find_common_papers is over, for each pairing (p < q) and each
\* record A of table p, A is reported iff some record B of table q matches
\* it by the asymmetric ratio, A is appended at most once per pairing, and
\* records of table q are never reported from that pairing.
C8_ReportedIffMatch ==
    dpc \in {"returned", "raised"} =>
        \A p \in 1..Len(dfs), q \in 1..Len(dfs) :
            p < q =>
                \A a \in 1..Len(dfs[p]) :
                    /\ Cardinality(EntriesOf(p, q, a)) <= 1
                    /\ EntriesOf(p, q, a) # {} <=>
                         \E b \in 1..Len(dfs[q]) :
                             ClaimedMatch(dfs[p][a].Title, dfs[q][b].Title)
                    /\ \A k \in EntriesOf(p, q, a) : common_papers[k].row = dfs[p][a]

\* The statement of C8 restricted to the calls that return.
ReportedIffMatchWhenReturned ==
    dpc = "raised" \/ C8_ReportedIffMatch

\* The similarity of row ra of dfs[ti] and row b of dfs[tj] is computed: both
\* normalized titles are non-empty and no earlier row of dfs[tj] ended the
\* scan of row ra.
SimilarityComputed(b) ==
    /\ dpc = "scan" /\ ti < Len(dfs)
    /\ b \in 1..Len(dfs[tj])
    /\ Len(normalize_title(dfs[ti][ra].Title)) > 0
    /\ Len(normalize_title(dfs[tj][b].Title)) > 0
    /\ ScanRows(normalize_title(dfs[ti][ra].Title), SubSeq(dfs[tj], 1, b - 1), 1, threshold)
           = "nomatch"

\* C11: the similarity division is never performed with a zero denominator:
\* whenever the similarity of a pair is computed the token set of title A is
\* non-empty, also for whitespace-only titles and titles without word
\* characters, so find_common_papers never fails on it.
\* (dpc = "raised" is the state after a division by len(set()) = 0.)
C11_DenominatorNonZero == dpc # "raised"

\* The statement of C11 for the titles that are not whitespace-only after
\* normalization: a title without word characters or whitespace normalizes
\* to the empty string and is never compared.
DenominatorNonZeroUnlessBlank ==
    \A b \in 1..MaxTableRows + 2 :
        SimilarityComputed(b) /\ normalize_title(dfs[ti][ra].Title) # <<" ", " ">> =>
            Cardinality(TokenSet(normalize_title(dfs[ti][ra].Title))) > 0


\* --------------------------------------------------------- claims: batch
\* C4: every failure of a single provider is contained: no exception leaves
\* the resolver, and the driver goes on to the next row after any row's
\* failure until every row has been visited.
C4_FailuresContained ==
    /\ rpc # "raised"
    /\ pc \in {"done", "aborted"} => index > Len(df)

\* Every row of the table this run loaded needs resolution.
AllNeedResolution == \A k \in 1..Len(loaded) : ~Skips(loaded[k])

\* C5 (as claimed): on 25 rows that all need resolution a run performs
\* exactly 3 intermediate persistence calls plus one final call.
C5_ThreeIntermediateSaves ==
    Len(loaded) = 25 /\ AllNeedResolution /\ pc = "done" =>
        interim_saves = 3 /\ final_saves = 1

\* C5 (amended): on 25 rows that all need resolution a run that returns has
\* performed exactly 2 intermediate persistence calls, after the 10th and
\* the 20th update, plus one final call; before the end of the loop, and in
\* a run an exception ended, there is one intermediate call per 10 updates
\* and no final call.
C5_TwoIntermediateSaves ==
    Len(loaded) = 25 /\ AllNeedResolution =>
        /\ pc = "done" => updated = 25 /\ interim_saves = 2 /\ final_saves = 1
        /\ pc # "done" => final_saves = 0
        /\ pc \in {"loop", "done", "aborted"} => interim_saves = updated \div 10
        /\ pc = "checkpoint" => updated \in {10, 20} /\ interim_saves = (updated \div 10) - 1

C5_Witness ==
    /\ Len(loaded) = 25 /\ AllNeedResolution
    /\ pc = "done" /\ updated = 25 /\ interim_saves = 2 /\ final_saves = 1

C7_PersistedRowsSkipped ==
    runs > 1 => \A k \in prior : resolved[k] = 0

\* C7 (amended): on a rerun every row whose persisted Cites is positive is
\* skipped and left as it is; a row whose persisted update wrote 0 is
\* resolved again when the loop reaches it.
C7_PositiveRowsSkipped ==
    runs > 1 =>
        \A k \in prior :
            /\ loaded[k].Cites > 0 => resolved[k] = 0 /\ df[k] = loaded[k]
            /\ loaded[k].Cites = 0 /\ index > k => resolved[k] = 1

C7_Witness ==
    /\ runs = 2 /\ Len(loaded) = 25
    /\ prior = 1..20
    /\ \A k \in prior : loaded[k].Cites > 0 /\ resolved[k] = 0
    /\ index = 23 /\ resolved[21] = 1 /\ resolved[22] = 1

\* C9: a row with a missing DOI or with Cites already positive is never
\* passed to the resolver and keeps its Cites; every other row is resolved
\* exactly once per run and only its Cites field is written.
C9_SkipOrResolveOnce ==
    \A k \in 1..Len(loaded) :
        IF Skips(loaded[k])
        THEN resolved[k] = 0 /\ df[k] = loaded[k]
        ELSE /\ resolved[k] <= 1
             /\ df[k].DOI = loaded[k].DOI
             /\ resolved[k] = 0 => df[k] = loaded[k]
             /\ pc \in {"done", "aborted"} => resolved[k] = 1

\* The statement of C9 restricted to the runs no exception ends.
SkipOrResolveOnceUnlessAborted ==
    pc = "aborted" \/ C9_SkipOrResolveOnce

\* ------------------------------------------------------ claims: resolver
\* The fallback order of this call: Scopus only when the key is configured.
ProviderOrder == IF scopus_api_key THEN <<"A", "B", "C", "D">> ELSE <<"A", "B", "D">>

\* The citation count a provider's answer carries (0 when it carries none:
\* a failure, an empty title, a missing envelope, a null, no 'Cited by').
ProviderCount(p) ==
    IF p = "A"
    THEN (IF resp.a.kind = "ok" /\ resp.a.title /\ resp.a.count # Null THEN resp.a.count ELSE 0)
    ELSE IF p = "B"
    THEN (IF resp.b.kind = "ok" /\ resp.b.envelope /\ resp.b.count # Null THEN resp.b.count ELSE 0)
    ELSE IF p = "C"
    THEN (IF resp.c.kind = "ok" /\ resp.c.envelope /\ resp.c.count # Null THEN resp.c.count ELSE 0)
    ELSE (IF resp.d.kind = "ok" /\ resp.d.cited # Null THEN resp.d.cited ELSE 0)

\* Positions of ProviderOrder whose provider carries a positive count.
PositivePositions == {k \in 1..Len(ProviderOrder) : ProviderCount(ProviderOrder[k]) > 0}
FirstPositive == CHOOSE k \in PositivePositions : \A j \in PositivePositions : k <= j

\* C1: the providers are queried in the order A, B, C (only with a key), D,
\* none is queried after one yielded a positive count, and for every
\* combination of provider answers the result is the count of the first
\* provider, in that order, whose count is positive.
C1_FirstPositiveWins ==
    rpc # "idle" =>
        IF PositivePositions # {}
        THEN /\ rpc = "returned"
             /\ ret.value = ProviderCount(ProviderOrder[FirstPositive])
             /\ ret.queried = SubSeq(ProviderOrder, 1, FirstPositive)
        ELSE ret.queried = ProviderOrder

\* The statement of C1 restricted to the calls that return.
FirstPositiveWinsWhenReturned ==
    rpc = "raised" \/ C1_FirstPositiveWins

\* A, B and (with a key) C fail at transport level, D answers a page without
\* 'Cited by <n>'.
AllFailDNoPattern ==
    /\ rpc # "idle"
    /\ resp.a.kind = "error"
    /\ resp.b.kind = "error"
    /\ scopus_api_key => resp.c.kind = "error"
    /\ resp.d.kind = "ok" /\ resp.d.cited = Null

DHardFailed ==
    /\ rpc # "idle"
    /\ Len(ret.queried) > 0
    /\ ret.queried[Len(ret.queried)] = "D"
    /\ resp.d.kind = "error"

====
